---- MODULE Spec2Model ----
(***************************************************************************)
(* A model of ortho_rs (src/src/lib.rs): the geometry kernel (Point, Size, *)
(* Rect and their derived measurements, direction_of, distance) and the    *)
(* PointGraph that interns points into a petgraph::Graph<Point, f64>.      *)
(*                                                                         *)
(* Three specifications share the variables:                               *)
(*   Spec       the PointGraph under add / connect calls                   *)
(*   SpecRect   the Rect functions applied to two input rectangles         *)
(*   SpecPoint  direction_of and distance applied to two input points      *)
(***************************************************************************)
EXTENDS Integers, Sequences, FiniteSets, TLC

VARIABLES
    graph_nodes,  \* PointGraph.graph: the node arena, NodeIndex i is graph_nodes[i + 1]
    graph_edges,  \* PointGraph.graph: the edge list, in insertion order
    nodes,        \* PointGraph.nodes: HashMap<Point, NodeIndex>, as a function on its keys
    call,         \* the most recent PointGraph call and its outcome
    first,        \* history: for each point ever passed to add, the index its first add returned
    build,        \* how integer overflow behaves in this build: "debug" panics, "release" wraps
    r, s,         \* SpecRect: the two input rectangles
    a, b,         \* SpecPoint: the two input points
    ret           \* SpecRect / SpecPoint: the function last applied and its result

vars == <<graph_nodes, graph_edges, nodes, call, first, build, r, s, a, b, ret>>

----------------------------------------------------------------------------
(* Bounds of the model.                                                    *)

\* Graph points have coordinates x, y >= 0 with x + y <= MaxCoord.
MaxCoord == 1
\* At most MaxNodes nodes are interned and MaxEdges edges stored.
MaxNodes == 2
MaxEdges == 1
\* Input rectangles: origin coordinates in 0..MaxPos, width and height in -1..MaxSize.
MaxPos == 1
MaxSize == 2
\* Input points of SpecPoint: coordinates within Near of 0, of i32::MIN and of i32::MAX.
Near == 1

----------------------------------------------------------------------------
(* i32 arithmetic.  Rust's +, - and pow on i32 panic on overflow when the  *)
(* build has overflow checks (debug) and wrap modulo 2^32 otherwise        *)
(* (release).  The wrapped results are computed without leaving the i32    *)
(* range in any intermediate step.                                         *)

MaxI32 == 2147483647
MinI32 == -2147483647 - 1
\* The largest d with d * d <= MaxI32.
MaxRoot == 46340
Half == 65536

Builds == {"debug", "release"}

AddOverflows(x, y) ==
    \/ (x >= 0 /\ y >= 0 /\ x > MaxI32 - y)
    \/ (x < 0 /\ y < 0 /\ x < MinI32 - y)

\* x + y, wrapped to i32
WrappingAdd(x, y) ==
    IF x >= 0 /\ y >= 0 /\ x > MaxI32 - y THEN (x + MinI32) + (y + MinI32)
    ELSE IF x < 0 /\ y < 0 /\ x < MinI32 - y THEN (x - MinI32) + (y - MinI32)
    ELSE x + y

SubOverflows(x, y) ==
    \/ (x >= 0 /\ y < 0 /\ x > MaxI32 + y)
    \/ (x < 0 /\ y >= 0 /\ x < MinI32 + y)

\* x - y, wrapped to i32
WrappingSub(x, y) ==
    IF x >= 0 /\ y < 0 /\ x > MaxI32 + y THEN (x + MinI32) - (y - MinI32)
    ELSE IF x < 0 /\ y >= 0 /\ x < MinI32 + y THEN (x - MinI32) - (y + MinI32)
    ELSE x - y

Pow2Overflows(d) == d > MaxRoot \/ d < -MaxRoot

\* d.pow(2) = d * d, wrapped to i32: the low 32 bits of the square, from the
\* 16-bit halves of d's two's-complement representation.
WrappingPow2(d) ==
    IF ~Pow2Overflows(d) THEN d * d
    ELSE LET lo == d % Half
             hi == (d \div Half) % Half
             c == lo \div 256
             e == lo % 256
             t == (2 * c * e) * 256 + e * e
             cross == 2 * (((hi % 32768) * (lo % 32768)) % 32768)
             L == t % Half
             H == (c * c + (t \div Half) + cross) % Half
         IN  IF H >= 32768 THEN (H - Half) * Half + L ELSE H * Half + L

\* x / 2 on i32: Rust's division truncates toward zero.
Div2(x) == IF x >= 0 THEN x \div 2 ELSE -((-x) \div 2)

----------------------------------------------------------------------------
(* f64 results.  sqrt of an i32 radicand n >= 0 is kept exactly, as the    *)
(* pair (floor(sqrt n), n - floor(sqrt n)^2): two radicands have the same  *)
(* f64 square root exactly when they have the same pair.  A negative       *)
(* radicand gives NaN, which compares unequal to everything.               *)

NaN == [nan |-> TRUE, floor |-> 0, rem |-> 0]

\* floor(sqrt n) for 0 <= n <= MaxI32, a base-4 digit of n at a time.
RECURSIVE ISqrt(_)
ISqrt(n) ==
    IF n < 2 THEN n
    ELSE LET k == 2 * ISqrt(n \div 4)
         IN  IF k + 1 <= MaxRoot /\ (k + 1) * (k + 1) <= n THEN k + 1 ELSE k

\* (n as f64).sqrt()
Sqrt64(n) ==
    IF n < 0 THEN NaN
    ELSE LET k == ISqrt(n) IN [nan |-> FALSE, floor |-> k, rem |-> n - k * k]

\* == on f64
F64Eq(x, y) == ~x.nan /\ ~y.nan /\ x = y

----------------------------------------------------------------------------
(* Points and directions.                                                  *)

make_point(x, y) == [x |-> x, y |-> y]
make_size(width, height) == [width |-> width, height |-> height]

direction_of(p, q) ==
    IF p.x = q.x THEN "Horizontal"
    ELSE IF p.y = q.y THEN "Vertical"
    ELSE "Other"

\* The i32 expression under the square root of distance, step by step: each
\* step's wrapped result, and whether any step leaves the i32 range.
radicand(p, q) ==
    LET dx == WrappingSub(p.x, q.x)
        dy == WrappingSub(p.y, q.y)
        sx == WrappingPow2(dx)
        sy == WrappingPow2(dy)
    IN  [value |-> WrappingAdd(sx, sy),
         overflows |-> \/ SubOverflows(p.x, q.x)
                       \/ SubOverflows(p.y, q.y)
                       \/ Pow2Overflows(dx)
                       \/ Pow2Overflows(dy)
                       \/ AddOverflows(sx, sy)]

\* distance(p, q) in build bld: a panic, or the f64 square root of the radicand.
distance(p, q, bld) ==
    LET rad == radicand(p, q)
    IN  IF bld = "debug" /\ rad.overflows
        THEN [panicked |-> TRUE, value |-> NaN]
        ELSE [panicked |-> FALSE, value |-> Sqrt64(rad.value)]

----------------------------------------------------------------------------
(* Rect.  Edge arithmetic is i32 arithmetic, wrapped as in a release       *)
(* build; no input rectangle of SpecRect comes near the i32 limits, so a   *)
(* debug build computes the same values.                                   *)

min_max(x) ==
    <<CHOOSE m \in x : \A v \in x : m <= v, CHOOSE m \in x : \A v \in x : m >= v>>

\* from_ltrb taking right and bottom for the width and height
from_ltrb_no_origin(left, top, right, bottom) ==
    [origin |-> make_point(left, top), size |-> make_size(right, bottom)]

from_ltrb(left, top, right, bottom) ==
    [origin |-> make_point(left, top),
     size |-> make_size(WrappingSub(right, left), WrappingSub(bottom, top))]

left(q) == q.origin.x
right(q) == WrappingAdd(q.origin.x, q.size.width)
top(q) == q.origin.y
bottom(q) == WrappingAdd(q.origin.y, q.size.height)
width(q) == q.size.width
height(q) == q.size.height

center(q) ==
    make_point(WrappingAdd(left(q), Div2(width(q))), WrappingAdd(top(q), Div2(height(q))))

north_east(q) == make_point(right(q), top(q))
south_east(q) == make_point(right(q), bottom(q))
south_west(q) == make_point(left(q), bottom(q))
north_west(q) == make_point(left(q), top(q))

east(q) == make_point(left(q), center(q).y)
north(q) == make_point(center(q).x, top(q))
south(q) == make_point(center(q).x, bottom(q))
west(q) == make_point(left(q), center(q).y)

contains(q, p) ==
    p.x >= left(q) /\ p.x <= right(q) /\ p.y >= top(q) /\ p.y <= bottom(q)

\* intersects with closed instead of open intervals
intersects_closed(this, other) ==
    /\ left(other) <= WrappingAdd(left(this), width(this))
    /\ left(this) <= WrappingAdd(left(other), width(other))
    /\ top(other) <= WrappingAdd(top(this), height(this))
    /\ top(this) <= WrappingAdd(top(other), height(other))

intersects(this, other) ==
    LET this_x == left(this)
        this_y == top(this)
        this_w == width(this)
        this_h == height(this)
        rect_x == left(other)
        rect_y == top(other)
        rect_w == width(other)
        rect_h == height(other)
    IN  /\ rect_x < WrappingAdd(this_x, this_w)
        /\ this_x < WrappingAdd(rect_x, rect_w)
        /\ rect_y < WrappingAdd(this_y, this_h)
        /\ this_y < WrappingAdd(rect_y, rect_h)

union(this, q) ==
    LET x == {left(this), right(this), left(q), right(q)}
        y == {top(this), bottom(this), top(q), bottom(q)}
        mx == min_max(x)
        my == min_max(y)
    IN  from_ltrb(mx[1], my[1], mx[2], my[2])

----------------------------------------------------------------------------
(* Values the variables take outside their own specification.              *)

NoPoint == make_point(0, 0)
NoRect == [origin |-> make_point(0, 0), size |-> make_size(0, 0)]
NoRet == [op |-> "none"]
NoCall == [op |-> "none", panicked |-> FALSE, ndx |-> 0]
EmptyMap == [p \in {} |-> 0]

GraphIdle ==
    /\ graph_nodes = <<>>
    /\ graph_edges = <<>>
    /\ nodes = EmptyMap
    /\ first = EmptyMap
    /\ call = NoCall

GraphUnchanged == UNCHANGED <<graph_nodes, graph_edges, nodes, first, call>>

----------------------------------------------------------------------------
(* SpecRect: the Rect functions applied to the input rectangles r and s.   *)

RectSet ==
    {[origin |-> make_point(x, y), size |-> make_size(w, h)] :
        x \in 0..MaxPos, y \in 0..MaxPos, w \in (0 - 1)..MaxSize, h \in (0 - 1)..MaxSize}

InitRect ==
    /\ GraphIdle
    /\ build = "release"
    /\ r \in RectSet
    /\ s \in RectSet
    /\ a = NoPoint
    /\ b = NoPoint
    /\ ret = NoRet

RectFrame == GraphUnchanged /\ UNCHANGED <<build, r, s, a, b>>

ApplyIntersects == RectFrame /\ ret' = [op |-> "intersects", val |-> intersects(r, s)]
ApplyUnion == RectFrame /\ ret' = [op |-> "union", val |-> union(r, s)]
ApplyCenter == RectFrame /\ ret' = [op |-> "center", val |-> center(r)]
ApplyEast == RectFrame /\ ret' = [op |-> "east", val |-> east(r)]
ApplyWest == RectFrame /\ ret' = [op |-> "west", val |-> west(r)]
ApplyNorth == RectFrame /\ ret' = [op |-> "north", val |-> north(r)]
ApplySouth == RectFrame /\ ret' = [op |-> "south", val |-> south(r)]

NextRect ==
    \/ ApplyIntersects
    \/ ApplyUnion
    \/ ApplyCenter
    \/ ApplyEast
    \/ ApplyWest
    \/ ApplyNorth
    \/ ApplySouth

SpecRect == InitRect /\ [][NextRect]_vars

----------------------------------------------------------------------------
(* SpecPoint: direction_of and distance applied to the input points a, b.  *)

CoordSet ==
    ((0 - Near)..Near)
        \cup {MaxRoot, MaxRoot + 1}
        \cup {MaxI32 - k : k \in 0..Near}
        \cup {MinI32 + k : k \in 0..Near}

InitPoint ==
    /\ GraphIdle
    /\ build \in Builds
    /\ r = NoRect
    /\ s = NoRect
    /\ a \in {make_point(x, y) : x \in CoordSet, y \in CoordSet}
    /\ b \in {make_point(x, y) : x \in CoordSet, y \in CoordSet}
    /\ ret = NoRet

PointFrame == GraphUnchanged /\ UNCHANGED <<build, r, s, a, b>>

ApplyDirectionOf == PointFrame /\ ret' = [op |-> "direction_of", val |-> direction_of(a, b)]
ApplyDistance == PointFrame /\ ret' = [op |-> "distance", val |-> distance(a, b, build)]

NextPoint ==
    \/ ApplyDirectionOf
    \/ ApplyDistance

SpecPoint == InitPoint /\ [][NextPoint]_vars

----------------------------------------------------------------------------
(* Spec: the PointGraph.  graph is a petgraph::Graph<Point, f64>, which is *)
(* directed: add_node appends to the node arena and returns the new index, *)
(* add_edge appends one edge source -> target and allows parallel edges    *)
(* and self-loops.                                                         *)

PointSet ==
    {p \in {make_point(x, y) : x \in 0..MaxCoord, y \in 0..MaxCoord} : p.x + p.y <= MaxCoord}

\* PointGraph::has
has(p) == p \in DOMAIN nodes

\* PointGraph::get: Option<NodeIndex>
get(p) ==
    IF p \in DOMAIN nodes THEN [some |-> TRUE, ndx |-> nodes[p]]
    ELSE [some |-> FALSE, ndx |-> 0]

\* PointGraph::direction_of, on node indices
graph_direction_of(i, j) == direction_of(graph_nodes[i + 1], graph_nodes[j + 1])

\* petgraph's add_node: the arena with pt appended, and the index of the new node
add_node(arena, pt) == [arena |-> Append(arena, pt), ndx |-> Len(arena)]

\* petgraph's add_edge: one directed edge source -> target, appended
add_edge(edges, source, target, weight) ==
    Append(edges, [source |-> source, target |-> target, weight |-> weight])

\* add without the lookup: every call creates a node
add_no_lookup(pt) ==
    LET n == add_node(graph_nodes, pt)
    IN  [graph_nodes |-> n.arena,
         nodes |-> [p \in DOMAIN nodes \cup {pt} |-> IF p = pt THEN n.ndx ELSE nodes[p]],
         ndx |-> n.ndx]

\* PointGraph::add(pt): the state it leaves and the index it returns
add(pt) ==
    IF pt \in DOMAIN nodes
    THEN [graph_nodes |-> graph_nodes, nodes |-> nodes, ndx |-> nodes[pt]]
    ELSE LET n == add_node(graph_nodes, pt)
         IN  [graph_nodes |-> n.arena,
              nodes |-> [p \in DOMAIN nodes \cup {pt} |->
                            IF p = pt THEN n.ndx ELSE nodes[p]],
              ndx |-> n.ndx]

\* connect interning a missing endpoint (add in place of get)
connect_interning(p, q) ==
    LET weight == distance(p, q, build)
        arena_p == IF p \in DOMAIN nodes THEN graph_nodes ELSE Append(graph_nodes, p)
        map_p == [x \in DOMAIN nodes \cup {p} |->
                     IF x \in DOMAIN nodes THEN nodes[x] ELSE Len(graph_nodes)]
        arena_q == IF q \in DOMAIN map_p THEN arena_p ELSE Append(arena_p, q)
        map_q == [x \in DOMAIN map_p \cup {q} |->
                     IF x \in DOMAIN map_p THEN map_p[x] ELSE Len(arena_p)]
    IN  IF weight.panicked
        THEN [graph_nodes |-> graph_nodes, graph_edges |-> graph_edges,
              nodes |-> nodes, panicked |-> TRUE]
        ELSE [graph_nodes |-> arena_q,
              graph_edges |-> add_edge(graph_edges, map_q[p], map_q[q], weight.value),
              nodes |-> map_q, panicked |-> FALSE]

\* PointGraph::connect(p, q): the state it leaves, and whether it panicked
\* (in distance, or in the unwrap of a missing lookup) before add_edge.  Any of
\* the three panics leaves the same state, so the order of the tests is immaterial.
connect(p, q) ==
    LET weight == distance(p, q, build)
    IN  IF ~get(p).some \/ ~get(q).some \/ weight.panicked
        THEN [graph_nodes |-> graph_nodes, graph_edges |-> graph_edges,
              nodes |-> nodes, panicked |-> TRUE]
        ELSE [graph_nodes |-> graph_nodes,
              graph_edges |-> add_edge(graph_edges, get(p).ndx, get(q).ndx, weight.value),
              nodes |-> nodes, panicked |-> FALSE]

Init ==
    /\ GraphIdle
    /\ build \in Builds
    /\ r = NoRect
    /\ s = NoRect
    /\ a = NoPoint
    /\ b = NoPoint
    /\ ret = NoRet

GraphFrame == UNCHANGED <<build, r, s, a, b, ret>>

Add ==
    \E pt \in PointSet :
        LET res == add(pt)
        IN  /\ Len(res.graph_nodes) <= MaxNodes
            /\ graph_nodes' = res.graph_nodes
            /\ nodes' = res.nodes
            /\ first' = IF pt \in DOMAIN first THEN first
                        ELSE [p \in DOMAIN first \cup {pt} |->
                                 IF p = pt THEN res.ndx ELSE first[p]]
            /\ call' = [op |-> "add", panicked |-> FALSE, ndx |-> res.ndx]
            /\ UNCHANGED graph_edges
            /\ GraphFrame

Connect ==
    \E p \in PointSet, q \in PointSet :
        LET res == connect(p, q)
        IN  /\ Len(res.graph_edges) <= MaxEdges
            /\ graph_nodes' = res.graph_nodes
            /\ graph_edges' = res.graph_edges
            /\ nodes' = res.nodes
            /\ call' = [op |-> "connect", panicked |-> res.panicked, ndx |-> 0]
            /\ UNCHANGED first
            /\ GraphFrame

Next ==
    \/ Add
    \/ Connect

Spec == Init /\ [][Next]_vars

----------------------------------------------------------------------------
(* The properties.                                                         *)

Min(x, y) == IF x <= y THEN x ELSE y
Max(x, y) == IF x >= y THEN x ELSE y
NonNegative(q) == width(q) >= 0 /\ height(q) >= 0
Positive(q) == width(q) > 0 /\ height(q) > 0
Corners(q) == {north_west(q), north_east(q), south_east(q), south_west(q)}
Edges(q) == <<left(q), top(q), right(q), bottom(q)>>
NodeAt(i) == graph_nodes[i + 1]
EdgeSet == {graph_edges[i] : i \in 1..Len(graph_edges)}

\* C1: direction_of(a, b) is Horizontal when a and b have the same y and
\* different x, Vertical when they have the same x and different y, and Other
\* when they differ in both.
C1_DirectionOf ==
    ret.op = "direction_of" =>
        /\ (a.y = b.y /\ a.x # b.x => ret.val = "Horizontal")
        /\ (a.x = b.x /\ a.y # b.y => ret.val = "Vertical")
        /\ (a.x # b.x /\ a.y # b.y => ret.val = "Other")

\* C2: every stored edge joins two points that share an x- or a y-coordinate;
\* no edge joins two points whose direction_of is Other.
C2_NoDiagonalEdge ==
    \A e \in EdgeSet :
        /\ NodeAt(e.source).x = NodeAt(e.target).x \/ NodeAt(e.source).y = NodeAt(e.target).y
        /\ graph_direction_of(e.source, e.target) # "Other"

\* C3: the graph holds exactly one node per distinct point added: the map and the
\* arena are in bijection (the node at nodes[p] is p), add(p) for an added p returns
\* the index its first add returned and creates no node, and has / get report
\* exactly the points that were added.
C3_Interning ==
    /\ Len(graph_nodes) = Cardinality(DOMAIN first)
    /\ \A p \in DOMAIN nodes :
        nodes[p] \in 0..(Len(graph_nodes) - 1) /\ NodeAt(nodes[p]) = p
    /\ \A i \in 1..Len(graph_nodes) :
        graph_nodes[i] \in DOMAIN nodes /\ nodes[graph_nodes[i]] = i - 1
    /\ \A p \in PointSet :
        /\ has(p) <=> p \in DOMAIN first
        /\ get(p).some <=> p \in DOMAIN first
        /\ p \in DOMAIN first =>
            /\ get(p).ndx = first[p]
            /\ add(p).ndx = first[p]
            /\ add(p).graph_nodes = graph_nodes
            /\ add(p).nodes = nodes
    /\ call.op = "add" => \E p \in DOMAIN first : first[p] = call.ndx /\ NodeAt(call.ndx) = p

\* C3 witness: with two points interned, add of the first one again has
\* returned its index 0.
C3_Witness ==
    call.op = "add" /\ call.ndx = 0 /\ Len(graph_nodes) = 2

\* C4 as stated: for r, s of non-negative size, degenerate ones included,
\* r.intersects(s) is true exactly when max(lefts) < min(rights) and
\* max(tops) < min(bottoms), and r.intersects(s) = s.intersects(r).
C4_OpenIntervalOverlap ==
    (ret.op = "intersects" /\ NonNegative(r) /\ NonNegative(s)) =>
        /\ ret.val <=> /\ Max(left(r), left(s)) < Min(right(r), right(s))
                       /\ Max(top(r), top(s)) < Min(bottom(r), bottom(s))
        /\ ret.val <=> intersects(s, r)

\* C4 amended: for r, s of non-negative size, r.intersects(s) is true exactly
\* when each rectangle starts strictly before the other ends on both axes; for
\* rectangles of positive width and height that is the overlap of the open
\* intervals (max(lefts) < min(rights) and max(tops) < min(bottoms)); rectangles
\* that abut along an edge or at a corner do not intersect; and
\* r.intersects(s) = s.intersects(r).
C4_StrictOverlap ==
    (ret.op = "intersects" /\ NonNegative(r) /\ NonNegative(s)) =>
        /\ ret.val <=> /\ left(s) < right(r) /\ left(r) < right(s)
                       /\ top(s) < bottom(r) /\ top(r) < bottom(s)
        /\ (Positive(r) /\ Positive(s)) =>
            (ret.val <=> /\ Max(left(r), left(s)) < Min(right(r), right(s))
                         /\ Max(top(r), top(s)) < Min(bottom(r), bottom(s)))
        /\ (\/ right(r) = left(s) \/ right(s) = left(r)
            \/ bottom(r) = top(s) \/ bottom(s) = top(r)) => ~ret.val
        /\ ret.val <=> intersects(s, r)

\* C4 witness: intersects has answered for a zero-width r lying strictly inside
\* s, and said that they intersect.
C4_Witness ==
    /\ ret.op = "intersects"
    /\ NonNegative(r) /\ Positive(s)
    /\ width(r) = 0 /\ height(r) > 0
    /\ left(s) < left(r) /\ right(r) < right(s)
    /\ ret.val

\* C5: for a rectangle of non-negative size each side-midpoint lies on its own
\* edge, with the center's coordinate on the other axis: north() has y = top(),
\* south() y = bottom(), west() x = left(), east() x = right(); so east() and
\* west() differ whenever width > 0.
C5_SideMidpoints ==
    NonNegative(r) =>
        /\ ret.op = "north" => ret.val = make_point(center(r).x, top(r))
        /\ ret.op = "south" => ret.val = make_point(center(r).x, bottom(r))
        /\ ret.op = "west" => ret.val = make_point(left(r), center(r).y)
        /\ ret.op = "east" => /\ ret.val = make_point(right(r), center(r).y)
                              /\ width(r) > 0 => ret.val # west(r)

\* C6: for r, s of non-negative size, r.union(s) has the minimum of the lefts
\* and of the tops and the maximum of the rights and of the bottoms, contains
\* every corner of r and of s, equals s.union(r), and r.union(r) has r's edges.
C6_Union ==
    (ret.op = "union" /\ NonNegative(r) /\ NonNegative(s)) =>
        /\ left(ret.val) = Min(left(r), left(s))
        /\ top(ret.val) = Min(top(r), top(s))
        /\ right(ret.val) = Max(right(r), right(s))
        /\ bottom(ret.val) = Max(bottom(r), bottom(s))
        /\ \A p \in Corners(r) \cup Corners(s) : contains(ret.val, p)
        /\ ret.val = union(s, r)
        /\ r = s => Edges(ret.val) = Edges(r)

\* C6 witness: union has been applied to two disjoint rectangles of positive
\* size at different origins, and is wider and taller than either.
C6_Witness ==
    /\ ret.op = "union"
    /\ Positive(r) /\ Positive(s)
    /\ left(r) # left(s) /\ top(r) # top(s)
    /\ ~intersects(r, s)
    /\ width(ret.val) > Max(width(r), width(s))
    /\ height(ret.val) > Max(height(r), height(s))

\* C7: distance is total: for every pair of points with i32 coordinates no
\* subtraction, squaring or addition of the radicand leaves the i32 range (the
\* radicand is the exact value), distance(a, b) = distance(b, a), and
\* distance(a, a) = 0.
C7_DistanceTotal ==
    ret.op = "distance" =>
        /\ ~ret.val.panicked
        /\ ~radicand(a, b).overflows
        /\ radicand(a, b).value >= 0
        /\ F64Eq(ret.val.value, distance(b, a, build).value)
        /\ a = b => F64Eq(ret.val.value, Sqrt64(0))

\* C8: for every stored edge from p to q with weight w there is a stored edge
\* from q to p with the same weight, and w is the distance between the points.
C8_Reciprocal ==
    \A e \in EdgeSet :
        /\ \E f \in EdgeSet :
            f.source = e.target /\ f.target = e.source /\ F64Eq(f.weight, e.weight)
        /\ F64Eq(e.weight, distance(NodeAt(e.source), NodeAt(e.target), build).value)

\* C9: the graph contains no self-loop: no stored edge has the same node as
\* source and target.
C9_NoSelfLoop ==
    \A e \in EdgeSet : e.source # e.target

\* C10: connect(p, q) succeeds only when both p and q were added before; when
\* either was never added it panics before any edge is inserted, leaving the
\* arena, the map and the edges as they were; and connect never creates a node.
C10_ConnectNeedsBoth ==
    /\ \A p \in PointSet, q \in PointSet :
        LET res == connect(p, q)
        IN  /\ res.graph_nodes = graph_nodes
            /\ res.nodes = nodes
            /\ ~res.panicked => (p \in DOMAIN first /\ q \in DOMAIN first)
            /\ (p \notin DOMAIN first \/ q \notin DOMAIN first) => res.panicked
            /\ res.panicked => res.graph_edges = graph_edges
    /\ Len(graph_nodes) = Cardinality(DOMAIN first)
    /\ \A e \in EdgeSet :
        \E p \in DOMAIN first, q \in DOMAIN first :
            nodes[p] = e.source /\ nodes[q] = e.target

\* C10 witness: a connect has panicked in a graph that holds two nodes and an
\* edge, while some point was never added.
C10_Witness ==
    /\ call.op = "connect" /\ call.panicked
    /\ Len(graph_nodes) = 2 /\ Len(graph_edges) = 1
    /\ \E p \in PointSet : p \notin DOMAIN first

====
